---- MODULE Spec2Model ----
(***************************************************************************)
(* Queue Manager (zustand store usePlayerStore) and Playback Engine        *)
(* (PlayerBar component with its two audio backends) of the ASMR player.   *)
(*                                                                         *)
(* Times are whole seconds, volumes are tenths (10 = 1.0).  Queue indices  *)
(* are 0-based as in the TypeScript source; findIndex yields -1 when the   *)
(* element is absent.                                                      *)
(***************************************************************************)
EXTENDS Integers, Sequences, FiniteSets, TLC

(***************************************************************************)
(* Bounds                                                                  *)
(***************************************************************************)
\* number of track loads (runs of the effect on currentTrack) explored
MaxLoads == 2
\* length of every track of the catalogue, in seconds
TrackLen == 4
\* commands a user may have waiting for the native backend's answer
MaxQueue == 1
\* countdown ticks that stand for a quarter of an hour of the sleep timer
\* (the source counts 900 one-second ticks; the countdown is linear in it)
TicksPerQuarterHour == 1

(***************************************************************************)
(* Catalogue: the tracks the scanner recorded and the track lists of the   *)
(* works / playlists a play action can put into the queue.  A path is the  *)
(* sequence of its characters.                                             *)
(***************************************************************************)
TrackIds == 1..5

TrackPath(id) ==
    CASE id = 1 -> <<"a", ".", "m", "p", "3">>
      [] id = 2 -> <<"b", ".", "M", "4", "A">>
      [] id = 3 -> <<"c", ".", "d", ".", "w", "a", "v">>
      [] id = 4 -> <<"d", ".", "a", "a", "c">>
      [] id = 5 -> <<"e", ".", "o", "g", "g">>

\* duration_sec as recorded by the scanner; 0 = unknown
TrackDuration(id) == IF id \in {4, 5} THEN 0 ELSE TrackLen

Queues == { <<1, 2, 3>>, <<4>> }

\* a work whose only track is decoded natively and has no recorded duration
UnknownLengthQueue == <<5>>

NoTrack == [id |-> 0, obj |-> "none"]

\* the components that can start a scan or a batch enrichment
Components == {"Sidebar", "WorkGrid"}

\* ids of the rows the catalog may hold
WorkIds == {1, 2}
TrackRowIds == {1, 2}
HistoryIds == {1}
EntityIds == {1}
PlaylistIds == {1}

\* no scan is in progress
NoScan == [state |-> "idle", root |-> "", todo |-> {}]

\* no batch enrichment has been asked for
NoRun == [state |-> "idle", total |-> 0, current |-> 0, ok |-> 0, failed |-> 0, ticks |-> 0]

\* no toggle_favorite has returned yet
NoToggle == [w |-> 0, ret |-> FALSE, before |-> {}]

\* the database right after the migrations ran: every table is empty
EmptyDb ==
    [works |-> {}, tracks |-> {}, track_progress |-> {},
     tags |-> {}, voice_actors |-> {}, circles |-> {},
     work_tags |-> {}, work_voice_actors |-> {}, work_circles |-> {},
     playlists |-> {}, playlist_tracks |-> {}, play_history |-> {}]

(***************************************************************************)
(* Pure helpers of the load effect: path.split('.').pop()?.toLowerCase()   *)
(***************************************************************************)
RECURSIVE LastDot(_, _)
\* position of the last "." in the first n characters of s, 0 if none
LastDot(s, n) ==
    IF n = 0 THEN 0
    ELSE IF s[n] = "." THEN n ELSE LastDot(s, n - 1)

\* path.split('.').pop(): the characters after the last ".", or the whole
\* path when it has no "."
SplitPop(s) == SubSeq(s, LastDot(s, Len(s)) + 1, Len(s))

LowerChar(c) ==
    CASE c = "A" -> "a"
      [] c = "M" -> "m"
      [] c = "P" -> "p"
      [] c = "C" -> "c"
      [] c = "W" -> "w"
      [] c = "V" -> "v"
      [] OTHER   -> c

ToLowerCase(s) == [i \in 1..Len(s) |-> LowerChar(s[i])]

\* the fallback allow-list ['m4a', 'mp4', 'aac']
WebAudioExts == { <<"m", "4", "a">>, <<"m", "p", "4">>, <<"a", "a", "c">> }

\* mutation of useWebAudio: the extension is compared without lower-casing
useWebAudioCaseSensitive(path) == SplitPop(path) \in WebAudioExts

\* const useWebAudio = ['m4a', 'mp4', 'aac'].includes(ext || '')
useWebAudio(path) == ToLowerCase(SplitPop(path)) \in WebAudioExts

(***************************************************************************)
(* State                                                                   *)
(***************************************************************************)
VARIABLES
    \* ---- usePlayerStore
    isPlaying,       \* store.isPlaying
    currentTrack,    \* store.currentTrack: [id, obj]; obj = "queue" when the
                     \* object is the element of the queue array, "copy" when
                     \* it is a separate object ({...currentTrack} or literal)
    queue,           \* store.queue, as the sequence of track ids
    currentTime,     \* store.currentTime
    shuffle,         \* store.shuffle
    repeatMode,      \* store.repeatMode
    \* ---- PlayerBar component state
    volume,          \* useState volume
    pbCurrentTime,   \* useState currentTime of PlayerBar (reported position)
    duration,        \* useState duration
    isSeeking,       \* useState isSeeking
    playbackMode,    \* useState playbackMode: "rust" | "web" | "null"
    \* ---- native backend, reached through invoke()
    rustQueue,       \* invoked commands not yet answered, oldest first
    rustTrack,       \* track loaded in the native sink, 0 = none
    rustPlaying,     \* the native sink is producing audio
    rustVolume,
    \* ---- fallback backend: the HTMLAudioElement audioRef.current
    webSrc,          \* track of audio.src, 0 = none
    webPaused,       \* audio.paused
    webReady,        \* the source was loaded and playback has started
    webPending,      \* load whose audio.play() promise is pending, 0 = none
    webVolume,
    webTime,         \* audio.currentTime
    webEnded,        \* audio.ended: playback ran to the end of the source
    \* ---- observation
    nLoads,          \* number of runs of the load effect so far
    lastError,       \* load of the most recent console.error of playWithWebAudio
    curFailed,       \* the latest load was rejected by every backend it tried
    lastVolume,      \* the volume most recently requested by the user
    lastOp,          \* the operation that produced this state
    \* ---- PlayerBar sleep timer
    sleepTimerSeconds, \* useState sleepTimerSeconds: <<>> is null, <<n>> is n
    sleepSetTo,      \* the seconds the timer was last set to, 0 = never set
    sleepTicks,      \* countdown ticks since the timer was last set
    seekTimeouts,    \* pending setTimeout(() => setIsSeeking(false), 200)
    \* ---- long-running tasks started from Sidebar and WorkGrid
    scanning,        \* useState scanning of each component
    batchScraping,   \* useState batchScraping of each component
    dialogs,         \* open() folder dialogs each component is awaiting
    scanCalls,       \* scan_library invocations each component is awaiting
    batchCalls,      \* batch_scrape_metadata invocations awaited
    scanEvents,      \* scan-progress events emitted and not yet delivered
    batchRun,        \* the backend's batch enrichment run of each component's call
    \* ---- Catalog Store
    db,              \* the rows of every table of the database
    cascaded,        \* the tables the last delete_work removed rows from
    \* ---- favorites
    favorites,       \* the backend's set of favorite work ids
    localFavorites,  \* useState favorites of the WorkGrid
    favCalls,        \* get_favorites / toggle_favorite invocations not yet run
    favReplies,      \* their answers not yet delivered to the WorkGrid
    prevToggle,      \* the last toggle_favorite that returned: id, result, set before
    \* ---- Library Scanner
    scanRun          \* the scan in progress: its root and the directories left

storeVars == <<isPlaying, currentTrack, queue, currentTime, shuffle, repeatMode>>
barVars   == <<volume, pbCurrentTime, duration, isSeeking, playbackMode>>
rustVars  == <<rustQueue, rustTrack, rustPlaying, rustVolume>>
webVars   == <<webSrc, webPaused, webReady, webPending, webVolume, webTime, webEnded>>
obsVars   == <<nLoads, lastError, curFailed>>
timerVars == <<sleepTimerSeconds, sleepSetTo, sleepTicks, seekTimeouts>>
taskVars  == <<scanning, batchScraping, dialogs, scanCalls, batchCalls, scanEvents, batchRun>>
catalogVars == <<db, cascaded>>
favVars   == <<favorites, localFavorites, favCalls, favReplies, prevToggle>>
libVars   == <<favVars, scanRun>>
\* what the queue and the load path of the engine never touch
restVars  == <<lastVolume, timerVars, taskVars, catalogVars, libVars>>
vars == <<storeVars, barVars, rustVars, webVars, obsVars, lastOp, restVars>>

Init ==
    /\ isPlaying = FALSE
    /\ currentTrack = NoTrack
    /\ queue = <<>>
    /\ currentTime = 0
    /\ shuffle = FALSE
    /\ repeatMode = "off"
    /\ volume = 10
    /\ pbCurrentTime = 0
    /\ duration = 0
    /\ isSeeking = FALSE
    /\ playbackMode = "null"
    /\ rustQueue = <<>>
    /\ rustTrack = 0
    /\ rustPlaying = FALSE
    /\ rustVolume = 10
    /\ webSrc = 0
    /\ webPaused = TRUE
    /\ webReady = FALSE
    /\ webPending = 0
    /\ webVolume = 10
    /\ webTime = 0
    /\ webEnded = FALSE
    /\ nLoads = 0
    /\ lastError = 0
    /\ curFailed = FALSE
    /\ lastVolume = 10
    /\ lastOp = "init"
    /\ sleepTimerSeconds = <<>>
    /\ sleepSetTo = 0
    /\ sleepTicks = 0
    /\ seekTimeouts = 0
    /\ scanning = [c \in Components |-> FALSE]
    /\ batchScraping = [c \in Components |-> FALSE]
    /\ dialogs = [c \in Components |-> 0]
    /\ scanCalls = [c \in Components |-> 0]
    /\ batchCalls = [c \in Components |-> 0]
    /\ scanEvents = 0
    /\ batchRun = [c \in Components |-> NoRun]
    /\ db = EmptyDb
    /\ cascaded = {}
    /\ favorites = {}
    /\ localFavorites = {}
    /\ favCalls = << [cmd |-> "get_favorites", w |-> 0] >>
    /\ favReplies = <<>>
    /\ prevToggle = NoToggle
    /\ scanRun = NoScan

(***************************************************************************)
(* Array helpers (0-based, as in the source)                               *)
(***************************************************************************)
\* queue.findIndex(t => t.id === id)
FindIndex(q, id) ==
    IF \E i \in 1..Len(q) : q[i] = id
    THEN (CHOOSE i \in 1..Len(q) : q[i] = id /\ \A j \in 1..(i - 1) : q[j] # id) - 1
    ELSE -1

\* queue[i]
At(q, i) == q[i + 1]

QueueObj(id) == [id |-> id, obj |-> "queue"]
CopyObj(id) == [id |-> id, obj |-> "copy"]

(***************************************************************************)
(* usePlayerStore.playNext / playPrev as functions of the store state.     *)
(* An outcome is either no set() at all (noop) or the set() of a track;    *)
(* fresh tells that the track object is a newly created one.               *)
(***************************************************************************)
Noop == [noop |-> TRUE, track |-> NoTrack, fresh |-> FALSE]
SetTo(t, f) == [noop |-> FALSE, track |-> t, fresh |-> f]

\* mutation of playNext: the end of the queue wraps whatever the repeat mode
playNextWrapsAlways(q, cur, sh, rm) ==
    IF cur = NoTrack \/ Len(q) = 0 THEN { Noop }
    ELSE LET currentIndex == FindIndex(q, cur.id)
             otherIndices == { i \in 0..(Len(q) - 1) : i # currentIndex }
             candidates == IF sh THEN otherIndices ELSE { currentIndex + 1 }
             step(nextIndex) ==
                 IF nextIndex >= Len(q)
                 THEN SetTo(QueueObj(At(q, 0)), FALSE)
                 ELSE SetTo(QueueObj(At(q, nextIndex)), FALSE)
         IN IF rm = "one" THEN { SetTo(CopyObj(cur.id), TRUE) }
            ELSE IF candidates = {} THEN { Noop }
            ELSE { step(nextIndex) : nextIndex \in candidates }

\* mutation of playNext: the end of the queue never wraps
playNextNeverWraps(q, cur, sh, rm) ==
    IF cur = NoTrack \/ Len(q) = 0 THEN { Noop }
    ELSE LET currentIndex == FindIndex(q, cur.id)
             otherIndices == { i \in 0..(Len(q) - 1) : i # currentIndex }
             candidates == IF sh THEN otherIndices ELSE { currentIndex + 1 }
             step(nextIndex) ==
                 IF nextIndex >= Len(q)
                 THEN Noop
                 ELSE SetTo(QueueObj(At(q, nextIndex)), FALSE)
         IN IF rm = "one" THEN { SetTo(CopyObj(cur.id), TRUE) }
            ELSE IF candidates = {} THEN { Noop }
            ELSE { step(nextIndex) : nextIndex \in candidates }

\* mutation of playNext: repeat-one sets the current track object itself
\* instead of a copy of it
playNextRepeatSameObject(q, cur, sh, rm) ==
    IF cur = NoTrack \/ Len(q) = 0 THEN { Noop }
    ELSE LET currentIndex == FindIndex(q, cur.id)
             otherIndices == { i \in 0..(Len(q) - 1) : i # currentIndex }
             candidates == IF sh THEN otherIndices ELSE { currentIndex + 1 }
             step(nextIndex) ==
                 IF nextIndex >= Len(q)
                 THEN IF rm = "all" THEN SetTo(QueueObj(At(q, 0)), FALSE) ELSE Noop
                 ELSE SetTo(QueueObj(At(q, nextIndex)), FALSE)
         IN IF rm = "one" THEN { SetTo(cur, FALSE) }
            ELSE IF candidates = {} THEN { Noop }
            ELSE { step(nextIndex) : nextIndex \in candidates }

\* mutation of playNext: shuffle draws among all indices, the current one
\* included
playNextShuffleAnyIndex(q, cur, sh, rm) ==
    IF cur = NoTrack \/ Len(q) = 0 THEN { Noop }
    ELSE LET currentIndex == FindIndex(q, cur.id)
             otherIndices == 0..(Len(q) - 1)
             candidates == IF sh THEN otherIndices ELSE { currentIndex + 1 }
             step(nextIndex) ==
                 IF nextIndex >= Len(q)
                 THEN IF rm = "all" THEN SetTo(QueueObj(At(q, 0)), FALSE) ELSE Noop
                 ELSE SetTo(QueueObj(At(q, nextIndex)), FALSE)
         IN IF rm = "one" THEN { SetTo(CopyObj(cur.id), TRUE) }
            ELSE IF candidates = {} THEN { Noop }
            ELSE { step(nextIndex) : nextIndex \in candidates }

\* the set of outcomes of playNext (several only through Math.random)
playNext(q, cur, sh, rm) ==
    IF cur = NoTrack \/ Len(q) = 0 THEN { Noop }
    ELSE LET currentIndex == FindIndex(q, cur.id)
             otherIndices == { i \in 0..(Len(q) - 1) : i # currentIndex }
             candidates == IF sh THEN otherIndices ELSE { currentIndex + 1 }
             step(nextIndex) ==
                 IF nextIndex >= Len(q)
                 THEN IF rm = "all" THEN SetTo(QueueObj(At(q, 0)), FALSE) ELSE Noop
                 ELSE SetTo(QueueObj(At(q, nextIndex)), FALSE)
         IN IF rm = "one" THEN { SetTo(CopyObj(cur.id), TRUE) }
            ELSE IF candidates = {} THEN { Noop }
            ELSE { step(nextIndex) : nextIndex \in candidates }

\* the outcome of playPrev; ct is the store's currentTime
\* mutation of playPrev: the restart already happens at exactly 3 seconds
playPrevRestartsAtThree(q, cur, ct) ==
    IF cur = NoTrack THEN Noop
    ELSE IF ct >= 3 THEN SetTo(CopyObj(cur.id), TRUE)
    ELSE LET index == FindIndex(q, cur.id)
         IN IF index > 0 THEN SetTo(QueueObj(At(q, index - 1)), FALSE) ELSE Noop

playPrev(q, cur, ct) ==
    IF cur = NoTrack THEN Noop
    ELSE IF ct > 3 THEN SetTo(CopyObj(cur.id), TRUE)
    ELSE LET index == FindIndex(q, cur.id)
         IN IF index > 0 THEN SetTo(QueueObj(At(q, index - 1)), FALSE) ELSE Noop

(***************************************************************************)
(* Native backend commands                                                 *)
(***************************************************************************)
\* an invoke(): command, continuation awaiting its answer (k), load number,
\* track and numeric / boolean argument captured by the continuation
Cmd(c, k, n, t, v, b) == [cmd |-> c, k |-> k, n |-> n, t |-> t, v |-> v, b |-> b]

(***************************************************************************)
(* The effect on currentTrack (synchronous part): reset the position and   *)
(* the mode and call stopAllPlayback, which invokes pause_track.           *)
(***************************************************************************)
loadEffect(t) ==
    /\ nLoads < MaxLoads
    /\ pbCurrentTime' = 0
    /\ duration' = TrackDuration(t)
    /\ playbackMode' = "null"
    /\ rustQueue' = Append(rustQueue, Cmd("pause_track", "load", nLoads + 1, t, volume, FALSE))
    /\ nLoads' = nLoads + 1
    /\ curFailed' = FALSE
    /\ UNCHANGED <<volume, isSeeking, rustTrack, rustPlaying, rustVolume, lastError>>

engineUnchanged ==
    UNCHANGED <<barVars, rustVars, obsVars>>

\* set({ currentTrack: t, isPlaying: true }) followed by the render; the
\* effect runs when the currentTrack reference changed
setCurrent(t, fresh) ==
    /\ currentTrack' = t
    /\ isPlaying' = TRUE
    /\ IF fresh \/ t # currentTrack THEN loadEffect(t.id) ELSE engineUnchanged

applyOutcome(o) ==
    IF o.noop
    THEN UNCHANGED <<currentTrack, isPlaying>> /\ engineUnchanged
    ELSE setCurrent(o.track, o.fresh)

(***************************************************************************)
(* User play actions                                                       *)
(***************************************************************************)
\* WorkGrid.handlePlay, PlaylistPage.handlePlayAll: setQueue(mapped);
\* setTrack(mapped[0])
HandlePlay(q) ==
    /\ queue' = q
    /\ setCurrent(QueueObj(At(q, 0)), TRUE)
    /\ UNCHANGED <<currentTime, shuffle, repeatMode, webVars>>
    /\ lastOp' = "HandlePlay"
    /\ UNCHANGED restVars

\* PlaylistPage.handlePlayTrack: setQueue(mapped); setTrack(mapped.find(..))
HandlePlayTrack(q, i) ==
    /\ queue' = q
    /\ setCurrent(QueueObj(At(q, i)), TRUE)
    /\ UNCHANGED <<currentTime, shuffle, repeatMode, webVars>>
    /\ lastOp' = "HandlePlayTrack"
    /\ UNCHANGED restVars

\* mutation of DetailPlayTrack: the track is set but the queue is not
DetailPlayTrackKeepsQueue(q, i) ==
    /\ setCurrent(CopyObj(At(q, i)), TRUE)
    /\ UNCHANGED <<queue, currentTime, shuffle, repeatMode, webVars>>
    /\ lastOp' = "DetailPlayTrack"
    /\ UNCHANGED restVars

\* WorkDetailModal.handlePlayTrack (after add_to_history has answered):
\* setQueue(queueTracks); setTrack({...}) with a new object literal
DetailPlayTrack(q, i) ==
    /\ queue' = q
    /\ setCurrent(CopyObj(At(q, i)), TRUE)
    /\ UNCHANGED <<currentTime, shuffle, repeatMode, webVars>>
    /\ lastOp' = "DetailPlayTrack"
    /\ UNCHANGED restVars

\* TrackList row click: setTrack(track) with the queue's own element
TrackListClick(i) ==
    /\ i < Len(queue)
    /\ setCurrent(QueueObj(At(queue, i)), FALSE)
    /\ UNCHANGED <<queue, currentTime, shuffle, repeatMode, webVars>>
    /\ lastOp' = "TrackListClick"
    /\ UNCHANGED restVars

\* skip-forward button, Ctrl+ArrowRight
PlayNext ==
    /\ \E o \in playNext(queue, currentTrack, shuffle, repeatMode) : applyOutcome(o)
    /\ UNCHANGED <<queue, currentTime, shuffle, repeatMode, webVars>>
    /\ lastOp' = "playNext"
    /\ UNCHANGED restVars

\* skip-back button, Ctrl+ArrowLeft
PlayPrev ==
    /\ applyOutcome(playPrev(queue, currentTrack, currentTime))
    /\ UNCHANGED <<queue, currentTime, shuffle, repeatMode, webVars>>
    /\ lastOp' = "playPrev"
    /\ UNCHANGED restVars

\* the elapsed times the store is given
StoreTimes == {0, 3, 4}

\* usePlayerStore.setCurrentTime(time)
SetCurrentTime(time) ==
    /\ currentTime' = time
    /\ UNCHANGED <<isPlaying, currentTrack, queue, shuffle, repeatMode>>
    /\ UNCHANGED <<barVars, rustVars, webVars, obsVars>>
    /\ UNCHANGED restVars
    /\ lastOp' = "setCurrentTime"

ToggleShuffle ==
    /\ shuffle' = ~shuffle
    /\ UNCHANGED <<isPlaying, currentTrack, queue, currentTime, repeatMode>>
    /\ UNCHANGED <<barVars, rustVars, webVars, obsVars>>
    /\ lastOp' = "toggleShuffle"
    /\ UNCHANGED restVars

CycleRepeatMode ==
    /\ repeatMode' = CASE repeatMode = "off" -> "all"
                       [] repeatMode = "all" -> "one"
                       [] repeatMode = "one" -> "off"
    /\ UNCHANGED <<isPlaying, currentTrack, queue, currentTime, shuffle>>
    /\ UNCHANGED <<barVars, rustVars, webVars, obsVars>>
    /\ lastOp' = "cycleRepeatMode"
    /\ UNCHANGED restVars

(***************************************************************************)
(* Fallback backend: HTMLAudioElement operations                           *)
(***************************************************************************)
\* the catch handler of a pending play() promise runs: console.error
rejectPending ==
    /\ lastError' = IF webPending # 0 THEN webPending ELSE lastError
    /\ curFailed' = IF webPending # 0 /\ webPending = nLoads THEN TRUE ELSE curFailed

\* audioRef.current.pause(): pending play() promises are rejected
audioPause ==
    /\ webPaused' = TRUE
    /\ webPending' = 0
    /\ rejectPending
    /\ UNCHANGED <<webSrc, webReady, webVolume, webTime, webEnded>>

\* playWithWebAudio(path) for load n of track t with the captured volume v:
\* src = ..., volume = v, play(); setting src aborts what was pending
playWithWebAudio(n, t, v) ==
    /\ webSrc' = t
    /\ webVolume' = v
    /\ webPaused' = FALSE
    /\ webReady' = FALSE
    /\ webEnded' = FALSE
    /\ webTime' = 0
    /\ webPending' = n
    /\ rejectPending

\* mutation of playTrackCatch: the native failure is reported, not retried
playTrackCatchNoRetry(n, t, v) ==
    /\ lastError' = n
    /\ curFailed' = (n = nLoads)
    /\ UNCHANGED webVars

\* .catch of invoke('play_track'): fall back to Web Audio with the same path
playTrackCatch(n, t, v) == playWithWebAudio(n, t, v)

rustProducing == rustTrack # 0 /\ rustPlaying
webProducing == webSrc # 0 /\ ~webPaused /\ webReady /\ ~webEnded

(***************************************************************************)
(* Answers of the native backend, with the continuation that awaited them  *)
(***************************************************************************)
\* stopAllPlayback finished for a load: pause_track answered, the audio
\* element is paused, then the backend is chosen from the extension
StopThenLoad ==
    /\ rustQueue # <<>>
    /\ LET c == Head(rustQueue) IN
        /\ c.cmd = "pause_track" /\ c.k = "load"
        /\ rustPlaying' = FALSE
        /\ IF useWebAudio(TrackPath(c.t))
           THEN /\ playWithWebAudio(c.n, c.t, c.v)
                /\ rustQueue' = Tail(rustQueue)
           ELSE /\ audioPause
                /\ rustQueue' = Append(Tail(rustQueue),
                                       Cmd("play_track", "load", c.n, c.t, c.v, FALSE))
    /\ UNCHANGED <<storeVars, barVars, rustTrack, rustVolume, nLoads>>
    /\ lastOp' = "StopThenLoad"
    /\ UNCHANGED restVars

\* play_track succeeded: setPlaybackMode('rust'); setIsPlaying(true);
\* invoke('set_volume', { volume })
PlayTrackOk ==
    /\ rustQueue # <<>>
    /\ LET c == Head(rustQueue) IN
        /\ c.cmd = "play_track"
        /\ rustTrack' = c.t
        /\ rustPlaying' = TRUE
        /\ playbackMode' = "rust"
        /\ isPlaying' = TRUE
        /\ rustQueue' = Append(Tail(rustQueue),
                               Cmd("set_volume", "none", c.n, c.t, c.v, FALSE))
    /\ UNCHANGED <<currentTrack, queue, currentTime, shuffle, repeatMode>>
    /\ UNCHANGED <<volume, pbCurrentTime, duration, isSeeking, rustVolume>>
    /\ UNCHANGED <<webVars, obsVars>>
    /\ lastOp' = "PlayTrackOk"
    /\ UNCHANGED restVars

\* play_track failed: the catch handler falls back to Web Audio
PlayTrackErr ==
    /\ rustQueue # <<>>
    /\ LET c == Head(rustQueue) IN
        /\ c.cmd = "play_track"
        /\ playTrackCatch(c.n, c.t, c.v)
        /\ rustQueue' = Tail(rustQueue)
    /\ UNCHANGED <<storeVars, barVars, rustTrack, rustPlaying, rustVolume>>
    /\ UNCHANGED nLoads
    /\ lastOp' = "PlayTrackErr"
    /\ UNCHANGED restVars

SetVolumeDone ==
    /\ rustQueue # <<>>
    /\ LET c == Head(rustQueue) IN
        /\ c.cmd = "set_volume"
        /\ rustVolume' = c.v
        /\ rustQueue' = Tail(rustQueue)
    /\ UNCHANGED <<storeVars, barVars, rustTrack, rustPlaying, webVars, obsVars>>
    /\ lastOp' = "SetVolumeDone"
    /\ UNCHANGED restVars

\* pause_track / resume_track invoked by togglePlay or by the Space shortcut
\* answered: setIsPlaying(b) with the value the handler captured
PauseResumeDone ==
    /\ rustQueue # <<>>
    /\ LET c == Head(rustQueue) IN
        /\ c.cmd \in {"pause_track", "resume_track"} /\ c.k \in {"toggle", "space"}
        /\ rustPlaying' = IF c.cmd = "pause_track" THEN FALSE
                          ELSE IF rustTrack # 0 THEN TRUE ELSE rustPlaying
        /\ isPlaying' = c.b
        /\ rustQueue' = Tail(rustQueue)
        /\ lastOp' = c.k
        /\ UNCHANGED restVars
    /\ UNCHANGED <<currentTrack, queue, currentTime, shuffle, repeatMode>>
    /\ UNCHANGED <<barVars, rustTrack, rustVolume, webVars, obsVars>>

(***************************************************************************)
(* The play() promise of the audio element settles                         *)
(***************************************************************************)
\* .then: setPlaybackMode('web'); setIsPlaying(true); loadedmetadata has set
\* the duration of the source
WebPlayOk ==
    /\ webPending # 0
    /\ webReady' = TRUE
    /\ webPending' = 0
    /\ playbackMode' = "web"
    /\ isPlaying' = TRUE
    /\ duration' = TrackLen
    /\ UNCHANGED <<currentTrack, queue, currentTime, shuffle, repeatMode>>
    /\ UNCHANGED <<volume, pbCurrentTime, isSeeking, rustVars>>
    /\ UNCHANGED <<webSrc, webPaused, webVolume, webTime, webEnded, obsVars>>
    /\ lastOp' = "WebPlayOk"
    /\ UNCHANGED restVars

\* .catch: console.error only
WebPlayErr ==
    /\ webPending # 0
    /\ webPending' = 0
    /\ rejectPending
    /\ UNCHANGED <<storeVars, barVars, rustVars>>
    /\ UNCHANGED <<webSrc, webPaused, webReady, webVolume, webTime, webEnded>>
    /\ UNCHANGED nLoads
    /\ lastOp' = "WebPlayErr"
    /\ UNCHANGED restVars

(***************************************************************************)
(* Transport: togglePlay button and Space shortcut                         *)
(***************************************************************************)
TogglePlay ==
    /\ IF playbackMode = "rust"
       THEN /\ Len(rustQueue) < MaxQueue
            /\ rustQueue' = Append(rustQueue,
                   Cmd(IF isPlaying THEN "pause_track" ELSE "resume_track",
                       "toggle", 0, 0, 0, ~isPlaying))
            /\ UNCHANGED <<isPlaying, webVars, obsVars>>
       ELSE IF playbackMode = "web"
       THEN /\ isPlaying' = ~isPlaying
            /\ IF isPlaying
               THEN audioPause
               ELSE /\ webPaused' = FALSE
                    /\ webEnded' = FALSE
                    /\ webTime' = IF webEnded THEN 0 ELSE webTime
                    /\ UNCHANGED <<webSrc, webReady, webPending, webVolume,
                                   lastError, curFailed>>
            /\ UNCHANGED <<rustQueue, nLoads>>
       ELSE /\ isPlaying' = ~isPlaying
            /\ UNCHANGED <<rustQueue, webVars, obsVars>>
    /\ UNCHANGED <<currentTrack, queue, currentTime, shuffle, repeatMode>>
    /\ UNCHANGED <<barVars, rustTrack, rustPlaying, rustVolume>>
    /\ lastOp' = "togglePlay"
    /\ UNCHANGED restVars

\* useKeyboardShortcuts, case 'Space'
SpaceKey ==
    /\ currentTrack # NoTrack
    /\ Len(rustQueue) < MaxQueue
    /\ rustQueue' = Append(rustQueue,
           Cmd(IF isPlaying THEN "pause_track" ELSE "resume_track",
               "space", 0, 0, 0, ~isPlaying))
    /\ UNCHANGED <<storeVars, barVars, rustTrack, rustPlaying, rustVolume>>
    /\ UNCHANGED <<webVars, obsVars>>
    /\ lastOp' = "SpaceKey"
    /\ UNCHANGED restVars

(***************************************************************************)
(* Volume: the slider of PlayerBar and the ArrowUp / ArrowDown shortcuts.   *)
(***************************************************************************)
\* positions of the volume slider that are tried, in tenths
SliderValues == {0, 5, 10}

\* handleVolumeChange: setVolume(v); set_volume on the native backend only
\* when it is the active one; the audio element's volume follows (the effect
\* on [volume] and the handler's last statement)
HandleVolumeChange(v) ==
    /\ volume' = v
    /\ lastVolume' = v
    /\ webVolume' = v
    /\ IF playbackMode = "rust"
       THEN /\ Len(rustQueue) < MaxQueue
            /\ rustQueue' = Append(rustQueue, Cmd("set_volume", "none", 0, 0, v, FALSE))
       ELSE UNCHANGED rustQueue
    /\ UNCHANGED <<storeVars, pbCurrentTime, duration, isSeeking, playbackMode>>
    /\ UNCHANGED <<rustTrack, rustPlaying, rustVolume, obsVars>>
    /\ UNCHANGED <<webSrc, webPaused, webReady, webPending, webTime, webEnded>>
    /\ UNCHANGED <<timerVars, taskVars, catalogVars, libVars>>
    /\ lastOp' = "handleVolumeChange"

\* useKeyboardShortcuts, case 'ArrowUp' / 'ArrowDown', up to the first await:
\* invoke('get_volume'); up tells which of the two keys it was
ArrowVolume(up) ==
    /\ Len(rustQueue) < MaxQueue
    /\ rustQueue' = Append(rustQueue, Cmd("get_volume", "key", 0, 0, 0, up))
    /\ UNCHANGED <<storeVars, barVars, rustTrack, rustPlaying, rustVolume>>
    /\ UNCHANGED <<webVars, obsVars, restVars>>
    /\ lastOp' = IF up THEN "ArrowUp" ELSE "ArrowDown"

\* useKeyboardShortcuts, case 'KeyM', up to the first await:
\* invoke('get_volume')
KeyM ==
    /\ Len(rustQueue) < MaxQueue
    /\ rustQueue' = Append(rustQueue, Cmd("get_volume", "mute", 0, 0, 0, FALSE))
    /\ UNCHANGED <<storeVars, barVars, rustTrack, rustPlaying, rustVolume>>
    /\ UNCHANGED <<webVars, obsVars, restVars>>
    /\ lastOp' = "KeyM"

\* the value of `await invoke('get_volume') || 1.0`, in tenths: an answer
\* of 0 is falsy and is replaced by 1.0
volumeOrDefault(answer) == IF answer = 0 THEN 10 ELSE answer

\* get_volume answered: current = answer || 1.0, then
\* invoke('set_volume', { volume: Math.min(1.0, current + 0.1) }) or
\* Math.max(0, current - 0.1), or for KeyM 0 when current > 0, else 1.0
GetVolumeDone ==
    /\ rustQueue # <<>>
    /\ LET c == Head(rustQueue)
           current == volumeOrDefault(rustVolume)
           target == IF c.k = "mute" THEN (IF current > 0 THEN 0 ELSE 10)
                     ELSE IF c.b THEN (IF current + 1 > 10 THEN 10 ELSE current + 1)
                     ELSE (IF current - 1 < 0 THEN 0 ELSE current - 1)
       IN /\ c.cmd = "get_volume"
          /\ rustQueue' = Append(Tail(rustQueue),
                                 Cmd("set_volume", "none", 0, 0, target, FALSE))
          /\ lastVolume' = target
    /\ UNCHANGED <<storeVars, barVars, rustTrack, rustPlaying, rustVolume>>
    /\ UNCHANGED <<webVars, obsVars, timerVars, taskVars, catalogVars, libVars>>
    /\ lastOp' = IF Head(rustQueue).k = "mute" THEN "MuteVolumeDone" ELSE "GetVolumeDone"

(***************************************************************************)
(* Seeking: the seek bar of PlayerBar and the ArrowRight / ArrowLeft keys.  *)
(***************************************************************************)
\* positions of the seek bar that are tried: its left end and the length
\* of a track
SeekTargets == {0, TrackLen}

\* the largest value of the seek bar: max={duration || 1}
seekBarMax == IF duration = 0 THEN 1 ELSE duration

\* handleSeek (onChange of the seek bar)
HandleSeek(val) ==
    /\ val \in 0..seekBarMax
    /\ isSeeking' = TRUE
    /\ pbCurrentTime' = val
    /\ UNCHANGED <<storeVars, volume, duration, playbackMode>>
    /\ UNCHANGED <<rustVars, webVars, obsVars, restVars>>
    /\ lastOp' = "handleSeek"

\* handleSeekCommit (onMouseUp / onTouchEnd of the seek bar) up to its first
\* await; without an await the 200 ms timeout is set at once
HandleSeekCommit ==
    /\ seekTimeouts < MaxQueue
    /\ IF playbackMode = "rust"
       THEN /\ Len(rustQueue) < MaxQueue
            /\ rustQueue' = Append(rustQueue,
                   Cmd("seek_track", "seek", 0, 0, pbCurrentTime, FALSE))
            /\ UNCHANGED <<webVars, seekTimeouts>>
       ELSE IF playbackMode = "web"
       THEN /\ webTime' = pbCurrentTime
            /\ webEnded' = FALSE
            /\ webPaused' = (webEnded \/ webPaused)
            /\ seekTimeouts' = seekTimeouts + 1
            /\ UNCHANGED <<rustQueue, webSrc, webReady, webPending, webVolume>>
       ELSE /\ seekTimeouts' = seekTimeouts + 1
            /\ UNCHANGED <<rustQueue, webVars>>
    /\ UNCHANGED <<storeVars, barVars, rustTrack, rustPlaying, rustVolume, obsVars>>
    /\ UNCHANGED <<lastVolume, sleepTimerSeconds, sleepSetTo, sleepTicks, taskVars, catalogVars, libVars>>
    /\ lastOp' = "handleSeekCommit"

\* seek_track answered; the continuation of handleSeekCommit sets the
\* timeout, the continuation of the key handler does nothing more
SeekTrackDone ==
    /\ rustQueue # <<>>
    /\ LET c == Head(rustQueue) IN
        /\ c.cmd = "seek_track"
        /\ rustQueue' = Tail(rustQueue)
        /\ seekTimeouts' = IF c.k = "seek" THEN seekTimeouts + 1 ELSE seekTimeouts
    /\ UNCHANGED <<storeVars, barVars, rustTrack, rustPlaying, rustVolume>>
    /\ UNCHANGED <<webVars, obsVars>>
    /\ UNCHANGED <<lastVolume, sleepTimerSeconds, sleepSetTo, sleepTicks, taskVars, catalogVars, libVars>>
    /\ lastOp' = "SeekTrackDone"

\* the timeout of handleSeekCommit fires: setIsSeeking(false)
SeekTimeout ==
    /\ seekTimeouts > 0
    /\ seekTimeouts' = seekTimeouts - 1
    /\ isSeeking' = FALSE
    /\ UNCHANGED <<storeVars, volume, pbCurrentTime, duration, playbackMode>>
    /\ UNCHANGED <<rustVars, webVars, obsVars>>
    /\ UNCHANGED <<lastVolume, sleepTimerSeconds, sleepSetTo, sleepTicks, taskVars, catalogVars, libVars>>
    /\ lastOp' = "SeekTimeout"

\* useKeyboardShortcuts, case 'ArrowRight' / 'ArrowLeft' without Ctrl:
\* invoke('seek_track', { seconds: 10 }) or { seconds: -10 }
ArrowSeek(right) ==
    /\ currentTrack # NoTrack
    /\ Len(rustQueue) < MaxQueue
    /\ rustQueue' = Append(rustQueue,
           Cmd("seek_track", "key", 0, 0, IF right THEN 10 ELSE -10, FALSE))
    /\ UNCHANGED <<storeVars, barVars, rustTrack, rustPlaying, rustVolume>>
    /\ UNCHANGED <<webVars, obsVars, restVars>>
    /\ lastOp' = IF right THEN "ArrowRight" ELSE "ArrowLeft"

(***************************************************************************)
(* Sleep timer of PlayerBar                                                 *)
(***************************************************************************)
\* presets of the sleep menu, in minutes (two of its 15, 30, 45, 60, 90)
SleepPresets == {15, 45}

\* mutation of sleepIntervalActive: the interval outlives the timer's value
sleepIntervalNeverCleared(s) == TRUE

\* the countdown effect keeps an interval unless
\* sleepTimerSeconds === null || sleepTimerSeconds <= 0
sleepIntervalActive(s) == s # <<>> /\ s[1] > 0

\* mutation of sleepExpires: the countdown ends one tick late
sleepExpiresAtZero(prev) == prev = <<>> \/ prev[1] <= 0

\* the test of the interval's updater: prev === null || prev <= 1
sleepExpires(prev) == prev = <<>> \/ prev[1] <= 1

\* minutes * 60, counted in ticks of the model
sleepTicksOf(minutes) == (minutes \div 15) * TicksPerQuarterHour

\* setSleepTimer(minutes) from a preset of the menu
SetSleepTimer(m) ==
    /\ sleepTimerSeconds' = << sleepTicksOf(m) >>
    /\ sleepSetTo' = sleepTicksOf(m)
    /\ sleepTicks' = 0
    /\ UNCHANGED <<storeVars, barVars, rustVars, webVars, obsVars>>
    /\ UNCHANGED <<lastVolume, seekTimeouts, taskVars, catalogVars, libVars>>
    /\ lastOp' = "setSleepTimer"

\* setSleepTimer(null): the button shown while sleepTimerSeconds is truthy
CancelSleepTimer ==
    /\ sleepTimerSeconds # <<>> /\ sleepTimerSeconds[1] # 0
    /\ sleepTimerSeconds' = <<>>
    /\ UNCHANGED <<storeVars, barVars, rustVars, webVars, obsVars>>
    /\ UNCHANGED <<lastVolume, sleepSetTo, sleepTicks, seekTimeouts, taskVars, catalogVars, libVars>>
    /\ lastOp' = "cancelSleepTimer"

\* the interval of the countdown effect fires: the updater either counts
\* down or calls stopAllPlayback(), setIsPlaying(false) and returns null
SleepTick ==
    /\ sleepIntervalActive(sleepTimerSeconds)
    /\ sleepTicks' = sleepTicks + 1
    /\ IF sleepExpires(sleepTimerSeconds)
       THEN /\ Cardinality({ i \in 1..Len(rustQueue) : rustQueue[i].k = "sleep" }) < MaxQueue
            /\ rustQueue' = Append(rustQueue, Cmd("pause_track", "sleep", 0, 0, 0, FALSE))
            /\ isPlaying' = FALSE
            /\ sleepTimerSeconds' = <<>>
            /\ lastOp' = "SleepExpire"
       ELSE /\ sleepTimerSeconds' = << sleepTimerSeconds[1] - 1 >>
            /\ UNCHANGED <<rustQueue, isPlaying>>
            /\ lastOp' = "SleepTick"
    /\ UNCHANGED <<currentTrack, queue, currentTime, shuffle, repeatMode>>
    /\ UNCHANGED <<barVars, rustTrack, rustPlaying, rustVolume, webVars, obsVars>>
    /\ UNCHANGED <<lastVolume, sleepSetTo, seekTimeouts, taskVars, catalogVars, libVars>>

\* the pause_track of the timer's stopAllPlayback answered: the audio
\* element is paused too
SleepStopDone ==
    /\ rustQueue # <<>>
    /\ LET c == Head(rustQueue) IN
        /\ c.cmd = "pause_track" /\ c.k = "sleep"
        /\ rustPlaying' = FALSE
        /\ audioPause
        /\ rustQueue' = Tail(rustQueue)
    /\ UNCHANGED <<storeVars, barVars, rustTrack, rustVolume, nLoads>>
    /\ UNCHANGED restVars
    /\ lastOp' = "SleepStopDone"

(***************************************************************************)
(* Position reporting                                                      *)
(***************************************************************************)
\* mutation of tickRunning: the interval is not cleared when isPlaying
\* becomes false
tickRunningIgnoresPause == ~isSeeking /\ playbackMode = "rust"

\* the condition under which the native position timer effect keeps an
\* interval: if (isPlaying && !isSeeking && playbackMode === 'rust')
tickRunning == isPlaying /\ ~isSeeking /\ playbackMode = "rust"

\* the once-per-second interval of the native position timer effect; the
\* callback that finds the position at the duration calls playNext()
Tick ==
    /\ tickRunning
    /\ IF duration > 0 /\ pbCurrentTime >= duration
       THEN \E o \in playNext(queue, currentTrack, shuffle, repeatMode) :
               IF o.noop \/ (~o.fresh /\ o.track = currentTrack)
               THEN /\ pbCurrentTime' = 0
                    /\ currentTrack' = currentTrack
                    /\ isPlaying' = (o.noop => isPlaying)
                    /\ UNCHANGED <<volume, duration, isSeeking, playbackMode,
                                   rustVars, obsVars>>
               ELSE setCurrent(o.track, o.fresh)
       ELSE /\ pbCurrentTime' = IF pbCurrentTime >= duration THEN pbCurrentTime
                                ELSE pbCurrentTime + 1
            /\ UNCHANGED <<isPlaying, currentTrack, volume, duration, isSeeking,
                           playbackMode, rustVars, obsVars>>
    /\ UNCHANGED <<queue, currentTime, shuffle, repeatMode, webVars>>
    /\ lastOp' = IF duration > 0 /\ pbCurrentTime >= duration THEN "TickEnd" ELSE "Tick"
    /\ UNCHANGED restVars

\* 'timeupdate' listener of the audio element (registered once, on mount,
\* so the isSeeking it reads is the initial false)
TimeUpdate ==
    /\ webProducing
    /\ webTime < TrackLen
    /\ webTime' = webTime + 1
    /\ pbCurrentTime' = webTime + 1
    /\ UNCHANGED <<storeVars, volume, duration, isSeeking, playbackMode>>
    /\ UNCHANGED <<rustVars, webSrc, webPaused, webReady, webPending, webVolume,
                   webEnded, obsVars>>
    /\ lastOp' = "TimeUpdate"
    /\ UNCHANGED restVars

\* 'ended' listener of the audio element: playNext()
Ended ==
    /\ webProducing
    /\ webTime = TrackLen
    /\ webEnded' = TRUE
    /\ \E o \in playNext(queue, currentTrack, shuffle, repeatMode) : applyOutcome(o)
    /\ UNCHANGED <<queue, currentTime, shuffle, repeatMode>>
    /\ UNCHANGED <<webSrc, webPaused, webReady, webPending, webVolume, webTime>>
    /\ lastOp' = "Ended"
    /\ UNCHANGED restVars

(***************************************************************************)
(* Specifications.  The answers of the two backends are part of both; the  *)
(* engine specification composes them with every way of changing the track *)
(* and with the transport controls, the queue specification with the       *)
(* queue policy (shuffle / repeat) and the position reporting that drives  *)
(* auto-advance.                                                           *)
(***************************************************************************)
Backends ==
    \/ StopThenLoad
    \/ PlayTrackOk
    \/ PlayTrackErr
    \/ SetVolumeDone
    \/ WebPlayOk
    \/ WebPlayErr

NextEngine ==
    \/ \E q \in Queues : HandlePlay(q)
    \/ \E q \in Queues : \E i \in 0..(Len(q) - 1) : HandlePlayTrack(q, i)
    \/ \E q \in Queues : \E i \in 0..(Len(q) - 1) : DetailPlayTrack(q, i)
    \/ \E i \in 0..(Len(queue) - 1) : TrackListClick(i)
    \/ PlayNext
    \/ PlayPrev
    \/ TogglePlay
    \/ SpaceKey
    \/ PauseResumeDone
    \/ Backends

NextQueue ==
    \/ \E q \in Queues : HandlePlay(q)
    \/ \E q \in Queues : \E i \in 0..(Len(q) - 1) : HandlePlayTrack(q, i)
    \/ PlayNext
    \/ PlayPrev
    \/ ToggleShuffle
    \/ CycleRepeatMode
    \/ Tick
    \/ TimeUpdate
    \/ Ended
    \/ Backends

\* the queue store's own interface: play actions, next, previous and the
\* elapsed time it is told
NextStore ==
    \/ \E q \in Queues : HandlePlay(q)
    \/ \E q \in Queues : \E i \in 0..(Len(q) - 1) : HandlePlayTrack(q, i)
    \/ PlayNext
    \/ PlayPrev
    \/ \E time \in StoreTimes : SetCurrentTime(time)
    \/ Backends

\* playback left to itself: tracks are started and then only the timers,
\* the media element's events and the backends' answers act
NextAdvance ==
    \/ \E q \in Queues \cup {UnknownLengthQueue} : HandlePlay(q)
    \/ Tick
    \/ TimeUpdate
    \/ Ended
    \/ Backends

\* track loads together with every way of changing the volume
NextVolume ==
    \/ \E q \in Queues : HandlePlay(q)
    \/ \E v \in SliderValues : HandleVolumeChange(v)
    \/ \E up \in BOOLEAN : ArrowVolume(up)
    \/ KeyM
    \/ GetVolumeDone
    \/ Backends

\* playback of a work with pause / resume, position reporting and seeking
NextSeek ==
    \/ \E q \in Queues : HandlePlay(q)
    \/ TogglePlay
    \/ PauseResumeDone
    \/ Tick
    \/ TimeUpdate
    \/ \E val \in SeekTargets : HandleSeek(val)
    \/ HandleSeekCommit
    \/ SeekTrackDone
    \/ SeekTimeout
    \/ \E right \in BOOLEAN : ArrowSeek(right)
    \/ Backends

\* the sessions of the native position tick: a work is played, paused and
\* resumed, and the seek bar is dragged and released
NextTick ==
    \/ \E q \in Queues : HandlePlay(q)
    \/ TogglePlay
    \/ PauseResumeDone
    \/ Tick
    \/ \E val \in SeekTargets : HandleSeek(val)
    \/ HandleSeekCommit
    \/ SeekTrackDone
    \/ SeekTimeout
    \/ Backends

(***************************************************************************)
(* Library scan and batch metadata enrichment (Sidebar, WorkGrid)           *)
(***************************************************************************)
\* the sum of a per-component counter
total(f) == f["Sidebar"] + f["WorkGrid"]

\* click on the scan button of component c (disabled={scanning}): the
\* handler awaits the folder dialog, which blocks the window while open
ClickScan(c) ==
    /\ ~scanning[c]
    /\ total(dialogs) = 0
    /\ dialogs' = [dialogs EXCEPT ![c] = 1]
    /\ UNCHANGED <<scanning, batchScraping, scanCalls, batchCalls, scanEvents, batchRun>>
    /\ UNCHANGED <<storeVars, barVars, rustVars, webVars, obsVars>>
    /\ UNCHANGED <<lastVolume, timerVars, catalogVars, libVars>>
    /\ lastOp' = "clickScan"

\* the dialog of component c answers: with a folder selected the handler
\* sets scanning and invokes scan_library, without one it ends
DialogDone(c, selected) ==
    /\ dialogs[c] = 1
    /\ dialogs' = [dialogs EXCEPT ![c] = 0]
    /\ IF selected
       THEN /\ scanning' = [scanning EXCEPT ![c] = TRUE]
            /\ scanCalls' = [scanCalls EXCEPT ![c] = @ + 1]
       ELSE UNCHANGED <<scanning, scanCalls>>
    /\ UNCHANGED <<batchScraping, batchCalls, scanEvents, batchRun>>
    /\ UNCHANGED <<storeVars, barVars, rustVars, webVars, obsVars>>
    /\ UNCHANGED <<lastVolume, timerVars, catalogVars, libVars>>
    /\ lastOp' = IF selected THEN "scan_library" ELSE "dialogCancelled"

\* a running scan emits a scan-progress event
ScanEmit ==
    /\ total(scanCalls) > 0
    /\ scanEvents < MaxQueue
    /\ scanEvents' = scanEvents + 1
    /\ UNCHANGED <<scanning, batchScraping, dialogs, scanCalls, batchCalls, batchRun>>
    /\ UNCHANGED <<storeVars, barVars, rustVars, webVars, obsVars>>
    /\ UNCHANGED <<lastVolume, timerVars, catalogVars, libVars>>
    /\ lastOp' = "scanEmit"

\* a scan-progress event reaches the Sidebar's listener: setScanning(true)
ScanProgress ==
    /\ scanEvents > 0
    /\ scanEvents' = scanEvents - 1
    /\ scanning' = [scanning EXCEPT !["Sidebar"] = TRUE]
    /\ UNCHANGED <<batchScraping, dialogs, scanCalls, batchCalls, batchRun>>
    /\ UNCHANGED <<storeVars, barVars, rustVars, webVars, obsVars>>
    /\ UNCHANGED <<lastVolume, timerVars, catalogVars, libVars>>
    /\ lastOp' = "scan-progress"

\* scan_library of component c returns or throws: setScanning(false)
ScanDone(c) ==
    /\ scanCalls[c] > 0
    /\ scanCalls' = [scanCalls EXCEPT ![c] = @ - 1]
    /\ scanning' = [scanning EXCEPT ![c] = FALSE]
    /\ UNCHANGED <<batchScraping, dialogs, batchCalls, scanEvents, batchRun>>
    /\ UNCHANGED <<storeVars, barVars, rustVars, webVars, obsVars>>
    /\ UNCHANGED <<lastVolume, timerVars, catalogVars, libVars>>
    /\ lastOp' = "scanDone"

\* handleBatchScrape of component c: if (batchScraping) return; the flag
\* is set, the progress listener registered and batch_scrape_metadata
\* invoked
HandleBatchScrape(c) ==
    /\ ~batchScraping[c]
    /\ total(dialogs) = 0
    /\ batchScraping' = [batchScraping EXCEPT ![c] = TRUE]
    /\ batchCalls' = [batchCalls EXCEPT ![c] = @ + 1]
    /\ batchRun' = [batchRun EXCEPT ![c] = [NoRun EXCEPT !.state = "requested"]]
    /\ UNCHANGED <<scanning, dialogs, scanCalls, scanEvents>>
    /\ UNCHANGED <<storeVars, barVars, rustVars, webVars, obsVars>>
    /\ UNCHANGED <<lastVolume, timerVars, catalogVars, libVars>>
    /\ lastOp' = "batch_scrape_metadata"

\* the backend starts the run of c's call over the n works that have an
\* external code
BatchStart(c, n) ==
    /\ batchRun[c].state = "requested"
    /\ batchRun' = [batchRun EXCEPT ![c] = [NoRun EXCEPT !.state = "running", !.total = n]]
    /\ UNCHANGED <<scanning, batchScraping, dialogs, scanCalls, batchCalls, scanEvents>>
    /\ UNCHANGED <<storeVars, barVars, rustVars, webVars, obsVars>>
    /\ UNCHANGED <<lastVolume, timerVars, catalogVars, libVars>>
    /\ lastOp' = "batchStart"

\* mutation of batchItem: a failed lookup ends the run
batchItemAbortsOnFailure(r, fails) ==
    IF fails THEN [r EXCEPT !.current = r.total, !.failed = @ + 1, !.ticks = @ + 1]
    ELSE [r EXCEPT !.current = @ + 1, !.ok = @ + 1, !.ticks = @ + 1]

\* one work of the run: the lookup succeeds and the work is updated, or
\* it fails and the work is skipped; a {current, total} tick follows
batchItem(r, fails) ==
    [r EXCEPT !.current = @ + 1,
              !.ok = IF fails THEN @ ELSE @ + 1,
              !.failed = IF fails THEN @ + 1 ELSE @,
              !.ticks = @ + 1]

\* the run of c's call handles its next work
BatchItem(c, fails) ==
    /\ batchRun[c].state = "running"
    /\ batchRun[c].current < batchRun[c].total
    /\ batchRun' = [batchRun EXCEPT ![c] = batchItem(@, fails)]
    /\ UNCHANGED <<scanning, batchScraping, dialogs, scanCalls, batchCalls, scanEvents>>
    /\ UNCHANGED <<storeVars, barVars, rustVars, webVars, obsVars>>
    /\ UNCHANGED <<lastVolume, timerVars, catalogVars, libVars>>
    /\ lastOp' = IF fails THEN "batchItemFailed" ELSE "batchItem"

\* the run of c's call is through its works and batch_scrape_metadata
\* returns the success count: the finally block resets the flag
BatchDone(c) ==
    /\ batchCalls[c] > 0
    /\ batchRun[c].state = "running"
    /\ batchRun[c].current = batchRun[c].total
    /\ batchCalls' = [batchCalls EXCEPT ![c] = @ - 1]
    /\ batchScraping' = [batchScraping EXCEPT ![c] = FALSE]
    /\ batchRun' = [batchRun EXCEPT ![c].state = "idle"]
    /\ UNCHANGED <<scanning, dialogs, scanCalls, scanEvents>>
    /\ UNCHANGED <<storeVars, barVars, rustVars, webVars, obsVars>>
    /\ UNCHANGED <<lastVolume, timerVars, catalogVars, libVars>>
    /\ lastOp' = "batchDone"

\* the library's maintenance tasks, triggered from both components
NextTasks ==
    \/ \E c \in Components : ClickScan(c)
    \/ \E c \in Components, selected \in BOOLEAN : DialogDone(c, selected)
    \/ ScanEmit
    \/ ScanProgress
    \/ \E c \in Components : ScanDone(c)
    \/ \E c \in Components : HandleBatchScrape(c)
    \/ \E c \in Components, n \in 0..Cardinality(WorkIds) : BatchStart(c, n)
    \/ \E c \in Components, fails \in BOOLEAN : BatchItem(c, fails)
    \/ \E c \in Components : BatchDone(c)

(***************************************************************************)
(* Catalog database: the schema of the migrations                          *)
(***************************************************************************)
\* a FOREIGN KEY (col) REFERENCES parent(id) ON DELETE CASCADE of table child
FK(child, col, parent) == [child |-> child, col |-> col, parent |-> parent]

\* the foreign keys of works' first children (init migration)
InitKeys ==
    { FK("tracks", "work_id", "works"),
      FK("track_progress", "work_id", "works"),
      FK("track_progress", "track_id", "tracks") }

\* the foreign keys of the taxonomy join tables (metadata migration)
MetadataKeys ==
    { FK("work_tags", "work_id", "works"),
      FK("work_tags", "tag_id", "tags"),
      FK("work_voice_actors", "work_id", "works"),
      FK("work_voice_actors", "voice_actor_id", "voice_actors"),
      FK("work_circles", "work_id", "works"),
      FK("work_circles", "circle_id", "circles") }

\* mutation of PlaylistTrackKeys: playlist_tracks does not reference tracks
PlaylistTrackKeysWithoutTrack ==
    { FK("playlist_tracks", "playlist_id", "playlists") }

\* the foreign keys of playlist_tracks (track-based playlists migration)
PlaylistTrackKeys ==
    { FK("playlist_tracks", "playlist_id", "playlists"),
      FK("playlist_tracks", "track_id", "tracks") }

\* the foreign keys of play_history (play history migration)
PlayHistoryKeys ==
    { FK("play_history", "work_id", "works"),
      FK("play_history", "track_id", "tracks") }

\* every foreign key of the schema; each is declared ON DELETE CASCADE
ForeignKeys == InitKeys \cup MetadataKeys \cup PlaylistTrackKeys \cup PlayHistoryKeys

\* the taxonomy tables with their join table and its entity column
Taxonomies ==
    { [entity |-> "tags", join |-> "work_tags", col |-> "tag_id"],
      [entity |-> "voice_actors", join |-> "work_voice_actors", col |-> "voice_actor_id"],
      [entity |-> "circles", join |-> "work_circles", col |-> "circle_id"] }

\* the ids of the rows of a table that has an id column
idsOf(rows) == { r.id : r \in rows }

\* ON DELETE CASCADE: the rows of tbl with the given ids are gone; every
\* row of a child table that references one of them is deleted, and the
\* rows that reference a deleted child in turn
RECURSIVE cascade(_, _, _)
cascade(d, tbl, keys) ==
    LET pending == { fk \in ForeignKeys :
                        /\ fk.parent = tbl
                        /\ \E r \in d[fk.child] : r[fk.col] \in keys }
    IN  IF pending = {} THEN d
        ELSE LET fk == CHOOSE f \in pending : TRUE
                 gone == { r \in d[fk.child] : r[fk.col] \in keys }
                 d1 == [d EXCEPT ![fk.child] = @ \ gone]
                 d2 == IF \E f \in ForeignKeys : f.parent = fk.child
                       THEN cascade(d1, fk.child, idsOf(gone))
                       ELSE d1
             IN  cascade(d2, tbl, keys)

\* DELETE FROM works WHERE id = w, with foreign keys enforced
deleteWorkRow(d, w) ==
    cascade([d EXCEPT !.works = { r \in @ : r.id # w }], "works", {w})

\* the catalog changes to d2 (the player is not involved)
CatalogStep(d2, op) ==
    /\ db' = d2
    /\ cascaded' = IF op = "delete_work"
                   THEN { tbl \in DOMAIN db : d2[tbl] # db[tbl] }
                   ELSE {}
    /\ UNCHANGED <<storeVars, barVars, rustVars, webVars, obsVars>>
    /\ UNCHANGED <<lastVolume, timerVars, taskVars, libVars>>
    /\ lastOp' = op

\* the scanner creates Work w
InsertWork(w) ==
    /\ w \notin idsOf(db.works)
    /\ CatalogStep([db EXCEPT !.works = @ \cup {[id |-> w]}], "catalog")

\* the scanner creates Track t of Work w
InsertTrack(t, w) ==
    /\ w \in idsOf(db.works)
    /\ t \notin idsOf(db.tracks)
    /\ CatalogStep([db EXCEPT !.tracks = @ \cup {[id |-> t, work_id |-> w]}], "catalog")

\* the resume position of Work w is stored: one row per Work
SaveProgress(w, t) ==
    /\ w \in idsOf(db.works)
    /\ t \in idsOf(db.tracks)
    /\ CatalogStep([db EXCEPT !.track_progress =
            { r \in @ : r.work_id # w } \cup {[work_id |-> w, track_id |-> t]}], "catalog")

\* invoke('add_to_history', { workId, trackId })
AddToHistory(h, w, t) ==
    /\ h \notin idsOf(db.play_history)
    /\ w \in idsOf(db.works)
    /\ t \in idsOf(db.tracks)
    /\ CatalogStep([db EXCEPT !.play_history =
            @ \cup {[id |-> h, work_id |-> w, track_id |-> t]}], "catalog")

\* a tag, voice actor or circle is created on demand
InsertEntity(x, e) ==
    /\ e \notin idsOf(db[x.entity])
    /\ CatalogStep([db EXCEPT ![x.entity] = @ \cup {[id |-> e]}], "catalog")

\* Work w is given the tag, voice actor or circle e
LinkEntity(x, w, e) ==
    /\ w \in idsOf(db.works)
    /\ e \in idsOf(db[x.entity])
    /\ CatalogStep([db EXCEPT ![x.join] =
            @ \cup {[c \in {"work_id", x.col} |-> IF c = "work_id" THEN w ELSE e]}], "catalog")

\* invoke('create_playlist', { name })
CreatePlaylist(p) ==
    /\ p \notin idsOf(db.playlists)
    /\ CatalogStep([db EXCEPT !.playlists = @ \cup {[id |-> p]}], "catalog")

\* invoke('add_track_to_playlist', { playlistId, trackId })
AddTrackToPlaylist(p, t) ==
    /\ p \in idsOf(db.playlists)
    /\ t \in idsOf(db.tracks)
    /\ CatalogStep([db EXCEPT !.playlist_tracks =
            @ \cup {[playlist_id |-> p, track_id |-> t]}], "catalog")

\* invoke('delete_work', { workId, deleteFiles: true })
DeleteWork(w) ==
    /\ w \in idsOf(db.works)
    /\ CatalogStep(deleteWorkRow(db, w), "delete_work")

\* the catalog is filled and Works are deleted
NextCatalog ==
    \/ \E w \in WorkIds : InsertWork(w)
    \/ \E t \in TrackRowIds, w \in WorkIds : InsertTrack(t, w)
    \/ \E w \in WorkIds, t \in TrackRowIds : SaveProgress(w, t)
    \/ \E h \in HistoryIds, w \in WorkIds, t \in TrackRowIds : AddToHistory(h, w, t)
    \/ \E x \in Taxonomies, e \in EntityIds : InsertEntity(x, e)
    \/ \E x \in Taxonomies, w \in WorkIds, e \in EntityIds : LinkEntity(x, w, e)
    \/ \E p \in PlaylistIds : CreatePlaylist(p)
    \/ \E p \in PlaylistIds, t \in TrackRowIds : AddTrackToPlaylist(p, t)
    \/ \E w \in WorkIds : DeleteWork(w)

(***************************************************************************)
(* Library Scanner                                                         *)
(***************************************************************************)
\* the directory tree on disk: leaf directories and their audio files, a
\* file being its directory, its logical track position and its format
Dirs == {"RJ01", "misc", "solo"}
Files ==
    { [dir |-> "RJ01", pos |-> 1, fmt |-> "wav"],
      [dir |-> "RJ01", pos |-> 1, fmt |-> "mp3"],
      [dir |-> "RJ01", pos |-> 2, fmt |-> "mp3"],
      [dir |-> "misc", pos |-> 1, fmt |-> "mp3"],
      [dir |-> "misc", pos |-> 1, fmt |-> "flac"],
      [dir |-> "misc", pos |-> 1, fmt |-> "wav"],
      [dir |-> "solo", pos |-> 1, fmt |-> "mp3"] }

\* the roots a scan may be given and the leaf directories below each
Roots == [lib |-> {"RJ01", "misc", "solo"}, lib_RJ01 |-> {"RJ01"}, lib_misc |-> {"misc"}]

\* the external code in a directory's name ("" when it has none)
externalCode(dir) == IF dir = "RJ01" THEN "RJ01" ELSE ""

\* the fixed format priority, lossless before lossy
FormatPriority == <<"flac", "wav", "mp3">>
formatRank(fmt) == CHOOSE i \in 1..Len(FormatPriority) : FormatPriority[i] = fmt

\* the next AUTOINCREMENT id of a table
nextId(rows) ==
    IF rows = {} THEN 1
    ELSE (CHOOSE m \in idsOf(rows) : \A i \in idsOf(rows) : i <= m) + 1

\* mutation of isTopFormat: the schema's default, every copy is visible
isTopFormatDefault(f, files) == TRUE

\* duplicate-format resolution: f is the top-priority file of its position
isTopFormat(f, files) ==
    \A g \in files : (g.dir = f.dir /\ g.pos = f.pos) => formatRank(f.fmt) <= formatRank(g.fmt)

\* mutation of findWork: Works are matched by their external code only
findWorkByCodeOnly(works, dir) ==
    { r \in works : externalCode(dir) # "" /\ r.rj_code = externalCode(dir) }

\* reconciliation: the existing Works that match a directory, by dir_path
\* and, failing that, by external code
findWork(works, dir) ==
    LET byPath == { r \in works : r.dir_path = dir }
    IN  IF byPath # {} THEN byPath
        ELSE { r \in works : externalCode(dir) # "" /\ r.rj_code = externalCode(dir) }

\* the Track rows after the files of a directory are reconciled by path:
\* an existing row has its visibility updated, a new file gets a new row
RECURSIVE reconcileTracks(_, _, _, _)
reconcileTracks(tracks, wid, files, all) ==
    IF files = {} THEN tracks
    ELSE LET f == CHOOSE x \in files : TRUE
             old == { r \in tracks : r.path = f }
             vis == isTopFormat(f, all)
             new == IF old # {}
                    THEN (tracks \ old) \cup { [r EXCEPT !.is_visible = vis] : r \in old }
                    ELSE tracks \cup { [id |-> nextId(tracks), work_id |-> wid, path |-> f,
                                        track_number |-> f.pos, is_visible |-> vis] }
         IN  reconcileTracks(new, wid, files \ {f}, all)

\* the catalog after one directory is processed as a Work candidate
scanWork(d, dir) ==
    LET found == findWork(d.works, dir)
        wid == IF found # {} THEN (CHOOSE r \in found : TRUE).id ELSE nextId(d.works)
        works2 == IF found # {} THEN d.works
                  ELSE d.works \cup { [id |-> wid, dir_path |-> dir, rj_code |-> externalCode(dir)] }
        files == { f \in Files : f.dir = dir }
    IN  [d EXCEPT !.works = works2, !.tracks = reconcileTracks(d.tracks, wid, files, files)]

\* the scanner changes (the player, the tasks and the favorites do not)
scanFrame ==
    /\ UNCHANGED <<storeVars, barVars, rustVars, webVars, obsVars>>
    /\ UNCHANGED <<lastVolume, timerVars, taskVars, cascaded, favVars>>

\* scan_library(root_path) starts: the tree below the root is enumerated
ScanStart(root) ==
    /\ scanRun.state = "idle"
    /\ scanRun' = [state |-> "running", root |-> root, todo |-> Roots[root]]
    /\ UNCHANGED db
    /\ scanFrame
    /\ lastOp' = "scanStart"

\* the scan completes one Work
ScanWork(dir) ==
    /\ scanRun.state = "running"
    /\ dir \in scanRun.todo
    /\ db' = scanWork(db, dir)
    /\ scanRun' = [scanRun EXCEPT !.todo = @ \ {dir}]
    /\ scanFrame
    /\ lastOp' = "scanWork"

\* the scan has completed every Work below its root
ScanFinish ==
    /\ scanRun.state = "running"
    /\ scanRun.todo = {}
    /\ scanRun' = [scanRun EXCEPT !.state = "idle"]
    /\ UNCHANGED db
    /\ scanFrame
    /\ lastOp' = "scanFinish"

\* scans of the same tree, one after the other
NextScan ==
    \/ \E root \in DOMAIN Roots : ScanStart(root)
    \/ \E dir \in Dirs : ScanWork(dir)
    \/ ScanFinish

(***************************************************************************)
(* Favorites (WorkGrid and the backend's favorite set)                     *)
(***************************************************************************)
\* mutation of applyToggle: the answer is ignored and the id is added
applyToggleAlwaysAdds(prev, workId, isFav) == prev \cup {workId}

\* the updater of toggleFavorite: next.add(workId) or next.delete(workId)
applyToggle(prev, workId, isFav) ==
    IF isFav THEN prev \cup {workId} ELSE prev \ {workId}

\* toggle_favorite(work_id): membership flips, the new membership returns
toggleFavoriteRow(favs, workId) ==
    [ favs |-> IF workId \in favs THEN favs \ {workId} ELSE favs \cup {workId},
      ret  |-> workId \notin favs ]

\* the favorites change (the player, the tasks and the catalog do not)
favFrame ==
    /\ UNCHANGED <<storeVars, barVars, rustVars, webVars, obsVars>>
    /\ UNCHANGED <<lastVolume, timerVars, taskVars, catalogVars, scanRun>>

\* click on the heart of work workId: invoke('toggle_favorite', { workId }),
\* while at most MaxQueue earlier invocations are unanswered
ToggleFavorite(workId) ==
    /\ Len(favCalls) + Len(favReplies) <= MaxQueue
    /\ favCalls' = Append(favCalls, [cmd |-> "toggle_favorite", w |-> workId])
    /\ UNCHANGED <<favorites, localFavorites, favReplies, prevToggle>>
    /\ favFrame
    /\ lastOp' = "toggleFavorite"

\* the backend runs the oldest invocation: get_favorites answers the set,
\* toggle_favorite flips the membership and answers it, or fails
FavoritesRun(fails) ==
    /\ favCalls # <<>>
    /\ LET c == Head(favCalls)
           t == toggleFavoriteRow(favorites, c.w)
       IN  /\ favCalls' = Tail(favCalls)
           /\ IF c.cmd = "get_favorites"
              THEN /\ ~fails
                   /\ favReplies' = Append(favReplies,
                          [cmd |-> c.cmd, w |-> 0, ret |-> FALSE, ids |-> favorites, err |-> FALSE])
                   /\ UNCHANGED <<favorites, prevToggle>>
                   /\ lastOp' = "get_favorites"
              ELSE IF fails
              THEN /\ favReplies' = Append(favReplies,
                          [cmd |-> c.cmd, w |-> c.w, ret |-> FALSE, ids |-> {}, err |-> TRUE])
                   /\ UNCHANGED <<favorites, prevToggle>>
                   /\ lastOp' = "toggle_favorite failed"
              ELSE /\ favReplies' = Append(favReplies,
                          [cmd |-> c.cmd, w |-> c.w, ret |-> t.ret, ids |-> {}, err |-> FALSE])
                   /\ favorites' = t.favs
                   /\ prevToggle' = [w |-> c.w, ret |-> t.ret, before |-> favorites]
                   /\ lastOp' = "toggle_favorite"
    /\ UNCHANGED localFavorites
    /\ favFrame

\* the oldest answer reaches the WorkGrid: setFavorites(new Set(ids)) on
\* mount, the updater of toggleFavorite, or its catch
FavoritesReply ==
    /\ favReplies # <<>>
    /\ LET r == Head(favReplies) IN
        /\ favReplies' = Tail(favReplies)
        /\ localFavorites' =
              IF r.err THEN localFavorites
              ELSE IF r.cmd = "get_favorites" THEN r.ids
              ELSE applyToggle(localFavorites, r.w, r.ret)
        /\ lastOp' = IF r.cmd = "toggle_favorite" /\ ~r.err
                     THEN "toggleFavoriteApplied" ELSE "favoritesReply"
    /\ UNCHANGED <<favorites, favCalls, prevToggle>>
    /\ favFrame

\* works are marked and unmarked as favorites
NextFavorites ==
    \/ \E w \in WorkIds : ToggleFavorite(w)
    \/ \E fails \in BOOLEAN : FavoritesRun(fails)
    \/ FavoritesReply

\* playback of a work while the sleep timer is set, counts down, is
\* cancelled or expires
NextSleep ==
    \/ \E q \in Queues : HandlePlay(q)
    \/ \E m \in SleepPresets : SetSleepTimer(m)
    \/ CancelSleepTimer
    \/ SleepTick
    \/ SleepStopDone
    \/ Backends

Next ==
    \/ NextEngine \/ NextQueue \/ NextAdvance \/ NextVolume \/ NextSeek \/ NextTick
    \/ NextSleep \/ NextTasks \/ NextCatalog
    \/ NextFavorites \/ NextScan \/ NextStore

Spec == Init /\ [][Next]_vars
SpecEngine == Init /\ [][NextEngine]_vars
SpecQueue == Init /\ [][NextQueue]_vars
SpecVolume == Init /\ [][NextVolume]_vars
SpecSeek == Init /\ [][NextSeek]_vars
SpecTick == Init /\ [][NextTick]_vars
SpecSleep == Init /\ [][NextSleep]_vars
SpecTasks == Init /\ [][NextTasks]_vars
SpecCatalog == Init /\ [][NextCatalog]_vars
SpecFavorites == Init /\ [][NextFavorites]_vars
SpecScan == Init /\ [][NextScan]_vars
SpecStore == Init /\ [][NextStore]_vars

\* an interval timer keeps firing, the media element keeps delivering its
\* events and every invoke() and play() promise settles
SpecAdvance ==
    /\ Init /\ [][NextAdvance]_vars
    /\ WF_vars(Tick) /\ WF_vars(TimeUpdate) /\ WF_vars(Ended) /\ WF_vars(Backends)

(***************************************************************************)
(* Claims                                                                  *)
(***************************************************************************)
\* the tracks of the catalogue whose file extension, compared without
\* regard to case, is one of m4a, mp4, aac: b.M4A and d.aac
FallbackTracks == {2, 4}

\* C1: a track whose extension is in the fallback allow-list is never handed
\* to the native backend: no play_track command is ever invoked for it and
\* the native sink never holds it; its load goes to the audio element only.
C1_AllowListedNeverNative ==
    /\ \A i \in 1..Len(rustQueue) :
          rustQueue[i].cmd = "play_track" => rustQueue[i].t \notin FallbackTracks
    /\ rustTrack \notin FallbackTracks

\* C1 witness: the upper-case b.M4A has been loaded and its first attempt is
\* running on the audio element
C1_Witness ==
    /\ currentTrack.id = 2
    /\ webSrc = 2
    /\ webPending = nLoads
    /\ lastOp = "StopThenLoad"

\* C2: for a track outside the allow-list the load invokes play_track and
\* makes no attempt on the audio element; when play_track fails, that step
\* itself starts the same track on the audio element (no caller action) and
\* logs no error; an error is logged only when a play() promise of the
\* audio element is rejected.
C2_NativeFirstThenFallback ==
    [][ /\ (lastOp' = "StopThenLoad" /\ Head(rustQueue).t \notin FallbackTracks)
            => /\ rustQueue'[Len(rustQueue')].cmd = "play_track"
               /\ rustQueue'[Len(rustQueue')].t = Head(rustQueue).t
               /\ webPending' = 0
        /\ (lastOp' = "PlayTrackErr")
            => /\ webSrc' = Head(rustQueue).t
               /\ webPending' = Head(rustQueue).n
               /\ ~webPaused'
               /\ lastError' # Head(rustQueue).n
        /\ (lastError' # lastError)
            => /\ webPending # 0
               /\ lastError' = webPending
      ]_vars

\* C2 witness: play_track has just failed for a.mp3 and the track is being
\* started on the audio element
C2_Witness ==
    /\ lastOp = "PlayTrackErr"
    /\ webSrc = 1
    /\ webPending # 0
    /\ ~webPaused

\* C3: at most one backend is producing audio at any time, whatever the
\* sequence of track changes and however the answers of the loads interleave.
C3_SingleActiveBackend == ~(rustProducing /\ webProducing)

\* a pause or resume request has run to completion: the answer of the
\* awaited pause_track / resume_track arrived, or togglePlay acted without
\* invoking the native backend
requestCompleted ==
    \/ lastOp \in {"toggle", "space"}
    \/ lastOp = "togglePlay" /\ playbackMode # "rust"

\* C4: when a pause request has completed, the backend named by playbackMode
\* is not producing audio; when a resume request has completed, the backend
\* that playbackMode does not name is not producing audio.
C4_PauseResumeOnActiveBackend ==
    /\ (requestCompleted /\ ~isPlaying)
          => /\ playbackMode = "rust" => ~rustProducing
             /\ playbackMode = "web" => ~webProducing
    /\ (requestCompleted /\ isPlaying)
          => /\ playbackMode = "rust" => ~webProducing
             /\ playbackMode = "web" => ~rustProducing

\* C5: once every pending load answer has arrived, playbackMode names the
\* backend that holds the current track.
C5_ModeNamesCurrentBackend ==
    (rustQueue = <<>> /\ webPending = 0 /\ currentTrack # NoTrack)
        => /\ playbackMode = "rust" => rustTrack = currentTrack.id
           /\ playbackMode = "web" => webSrc = currentTrack.id

\* C6: when the latest load was rejected by every backend it tried and
\* nothing is pending, the engine is idle: isPlaying is false and no active
\* backend is recorded.
C6_FailedLoadEndsIdle ==
    (curFailed /\ rustQueue = <<>> /\ webPending = 0)
        => (~isPlaying /\ playbackMode = "null")

\* the current track is the last element of a non-empty queue
atLastIndex ==
    /\ currentTrack # NoTrack
    /\ Len(queue) > 0
    /\ currentTrack.id = queue[Len(queue)]

\* C7: with shuffle off and repeat off, playNext on the last element of the
\* queue changes nothing: current track, queue, isPlaying and the reported
\* position stay as they are and no load is started.
C7_NextAtEndIsNoop ==
    [][ (lastOp' = "playNext" /\ ~shuffle /\ repeatMode = "off" /\ atLastIndex)
            => UNCHANGED <<currentTrack, queue, isPlaying, nLoads, pbCurrentTime,
                           playbackMode, rustQueue>>
      ]_vars

\* C7 witness: playNext has acted on the last element of a three-track queue
\* that is playing natively past position 0, and the track is still there
C7_Witness ==
    /\ lastOp = "playNext"
    /\ ~shuffle /\ repeatMode = "off"
    /\ Len(queue) = 3
    /\ atLastIndex
    /\ playbackMode = "rust"
    /\ pbCurrentTime > 0

\* C8: with shuffle off and repeat=all, playNext makes the element after the
\* current one the current track, and queue[0] when the current one is last.
C8_NextWrapsOnRepeatAll ==
    [][ (lastOp' = "playNext" /\ ~shuffle /\ repeatMode = "all" /\ currentTrack # NoTrack)
            => \A i \in 1..Len(queue) :
                  queue[i] = currentTrack.id
                      => currentTrack'.id = queue[(i % Len(queue)) + 1]
      ]_vars

\* C8 witness: playNext under repeat=all has just loaded the first element
\* of a three-track queue, which it can only have reached from the last one
C8_Witness ==
    /\ lastOp = "playNext"
    /\ ~shuffle /\ repeatMode = "all"
    /\ Len(queue) = 3
    /\ currentTrack.id = queue[1]
    /\ playbackMode = "null"
    /\ rustQueue # <<>>

\* C9: playPrev restarts the current track (same id, position 0, loaded
\* again) when the reported position is more than 3 seconds, and otherwise
\* moves to the prior queue entry when there is one.
C9_PrevRestartsAfterThreeSeconds ==
    [][ (lastOp' = "playPrev" /\ currentTrack # NoTrack)
            => IF pbCurrentTime > 3
               THEN /\ currentTrack'.id = currentTrack.id
                    /\ pbCurrentTime' = 0
                    /\ nLoads' = nLoads + 1
               ELSE \A i \in 2..Len(queue) :
                       queue[i] = currentTrack.id => currentTrack'.id = queue[i - 1]
      ]_vars

\* C10: with repeat=one, playNext keeps the track id and starts a new load
\* of that track: position reset to 0, mode cleared, stopAllPlayback invoked
\* for it; shuffle and the position in the queue do not matter.
C10_RepeatOneReloadsSameTrack ==
    [][ (lastOp' = "playNext" /\ repeatMode = "one" /\ currentTrack # NoTrack)
            => /\ currentTrack'.id = currentTrack.id
               /\ nLoads' = nLoads + 1
               /\ pbCurrentTime' = 0
               /\ playbackMode' = "null"
               /\ rustQueue' = Append(rustQueue,
                      Cmd("pause_track", "load", nLoads + 1, currentTrack.id, volume, FALSE))
      ]_vars

\* C10 witness: with shuffle on, playNext under repeat=one has acted on a
\* track the native backend still holds; the position is back at 0
C10_Witness ==
    /\ lastOp = "playNext"
    /\ repeatMode = "one" /\ shuffle
    /\ currentTrack.obj = "copy"
    /\ rustTrack = currentTrack.id /\ rustPlaying
    /\ pbCurrentTime = 0
    /\ playbackMode = "null"

\* C11: with shuffle on and repeat other than one, playNext on a queue of two
\* or more tracks makes current a queue element at an index other than the
\* current index, each other index being one of its possible outcomes; on a
\* queue of a single track it changes nothing and starts no load.
C11_ShufflePicksAnotherIndex ==
    [][ (lastOp' = "playNext" /\ shuffle /\ repeatMode # "one" /\ currentTrack # NoTrack)
            => LET cur == FindIndex(queue, currentTrack.id)
                   outcomes == playNext(queue, currentTrack, shuffle, repeatMode)
               IN IF Len(queue) >= 2
                  THEN /\ FindIndex(queue, currentTrack'.id) \in 0..(Len(queue) - 1)
                       /\ FindIndex(queue, currentTrack'.id) # cur
                       /\ \A i \in 0..(Len(queue) - 1) :
                             i # cur => \E o \in outcomes :
                                           ~o.noop /\ o.track = QueueObj(At(queue, i))
                  ELSE UNCHANGED <<currentTrack, queue, isPlaying, nLoads,
                                   pbCurrentTime, playbackMode, rustQueue>>
      ]_vars

\* C11 witness: under shuffle with repeat off, playNext has moved a
\* three-track queue from a later element back to its first element
C11_Witness ==
    /\ lastOp = "playNext"
    /\ shuffle /\ repeatMode = "off"
    /\ Len(queue) = 3
    /\ currentTrack.id = queue[1]
    /\ nLoads = 2
    /\ playbackMode = "null"

\* an end-of-track signal: the native tick found the position at the
\* duration, or the audio element fired 'ended'
endSignal(op) == op \in {"TickEnd", "Ended"}

\* C12: with shuffle off and repeat off, the step in which the last track of
\* the queue reaches its natural end halts playback: isPlaying becomes false,
\* the current track and the queue stay, and the native position tick is no
\* longer running (so it can produce no further end-of-track signal).
C12_LastTrackEndHalts ==
    [][ (endSignal(lastOp') /\ ~shuffle /\ repeatMode = "off" /\ atLastIndex)
            => /\ ~isPlaying'
               /\ currentTrack' = currentTrack
               /\ queue' = queue
               /\ ~tickRunning'
      ]_vars

\* track t is the current track and is playing, unpaused, on the backend the
\* engine recorded for it
playingOn(t) ==
    /\ currentTrack.id = t
    /\ isPlaying
    /\ \/ playbackMode = "rust" /\ rustTrack = t /\ rustPlaying
       \/ playbackMode = "web" /\ webSrc = t /\ webReady /\ ~webPaused

\* C13: every track that is playing, on either backend and whatever duration
\* is recorded for it, eventually produces the end-of-track signal that
\* calls playNext, unless it stops being the playing track before (a run
\* that has used up the explored number of loads is not looked at further).
C13_EndProducesAutoAdvance ==
    \A t \in TrackIds :
        (playingOn(t) /\ nLoads < MaxLoads)
            ~> (endSignal(lastOp) \/ ~playingOn(t) \/ nLoads >= MaxLoads)

\* a load has completed: every answer of the backends has arrived and the
\* engine recorded an active backend
loadCompleted == rustQueue = <<>> /\ webPending = 0 /\ playbackMode # "null"

\* C14: once a load has completed, the volume of the active backend is the
\* volume most recently requested (slider or ArrowUp / ArrowDown), also when
\* the request was made while the load was in flight.
C14_VolumePersistsAcrossLoads ==
    loadCompleted
        => /\ playbackMode = "rust" => rustVolume = lastVolume
           /\ playbackMode = "web" => webVolume = lastVolume

\* a seek request: the seek bar was released or an arrow key was pressed
seekRequest(op) == op \in {"handleSeekCommit", "ArrowRight", "ArrowLeft"}

\* C15: every seek request is forwarded to the active backend, and to it
\* only, as an absolute position within [0, duration] of the current track:
\* a seek_track command when the native backend is active, the audio
\* element's currentTime when the fallback backend is active (nothing is
\* required while no backend is active).
C15_SeekForwardedToActiveBackend ==
    [][ seekRequest(lastOp')
            => IF playbackMode = "rust"
               THEN /\ Len(rustQueue') = Len(rustQueue) + 1
                    /\ rustQueue'[Len(rustQueue')].cmd = "seek_track"
                    /\ rustQueue'[Len(rustQueue')].v \in 0..duration
                    /\ webTime' = webTime
               ELSE IF playbackMode = "web"
               THEN /\ rustQueue' = rustQueue
                    /\ webTime' \in 0..duration
               ELSE TRUE
      ]_vars

C16_SleepTimerCountsDownAndStops ==
    /\ [](sleepTimerSeconds # <<>> =>
            /\ sleepTimerSeconds[1] > 0
            /\ sleepTimerSeconds[1] + sleepTicks = sleepSetTo
            /\ \E m \in SleepPresets : sleepSetTo = sleepTicksOf(m))
    /\ [][ /\ lastOp' = "SleepTick" =>
                /\ sleepTimerSeconds' = << sleepTimerSeconds[1] - 1 >>
                /\ UNCHANGED <<isPlaying, currentTrack, playbackMode, rustVars, webVars>>
           /\ lastOp' = "SleepExpire" =>
                /\ sleepTicks' = sleepSetTo
                /\ \E m \in SleepPresets : sleepTicks' = sleepTicksOf(m)
                /\ sleepTimerSeconds' = <<>>
                /\ ~isPlaying'
                /\ rustQueue' = Append(rustQueue, Cmd("pause_track", "sleep", 0, 0, 0, FALSE))
           /\ lastOp' = "SleepStopDone" => ~rustPlaying' /\ webPaused'
         ]_vars

\* C16 witness: the 45 minute timer ran out while a track played natively,
\* and the stop it requested has paused the backend.
C16_Witness ==
    /\ lastOp = "SleepStopDone"
    /\ sleepSetTo = sleepTicksOf(45) /\ sleepTicks = sleepSetTo
    /\ sleepTicks > 1
    /\ sleepTimerSeconds = <<>>
    /\ playbackMode = "rust" /\ rustTrack = currentTrack.id
    /\ ~isPlaying /\ ~rustPlaying /\ webPaused

\* C17: cancelling the sleep timer clears it and leaves isPlaying, the
\* current track, the active backend and both backends' state as they
\* were, and the timer stops playback only from a state where it is set
\* (so never after its cancellation).
C17_CancelClearsWithoutStopping ==
    [][ /\ lastOp' = "cancelSleepTimer" =>
             /\ sleepTimerSeconds' = <<>>
             /\ UNCHANGED <<isPlaying, currentTrack, playbackMode, rustVars, webVars>>
        /\ lastOp' \in {"SleepTick", "SleepExpire"} => sleepTimerSeconds # <<>>
      ]_vars

\* C17 witness: a timer that had counted down was cancelled while a track
\* was playing, and playback goes on.
C17_Witness ==
    /\ lastOp = "cancelSleepTimer"
    /\ sleepTimerSeconds = <<>>
    /\ sleepTicks > 0 /\ sleepTicks < sleepSetTo
    /\ isPlaying /\ playbackMode = "rust" /\ rustPlaying

\* C19: at any time at most one scan_library invocation and at most one
\* batch_scrape_metadata invocation is awaiting its answer, whichever
\* components the triggers came from.
C19_SingleFlight ==
    /\ total(scanCalls) <= 1
    /\ total(batchCalls) <= 1

\* C20: a delete of Work w leaves exactly the rows that reference neither
\* w nor one of its Tracks: its Tracks, TrackProgress, PlayHistory rows,
\* the PlaylistTrack rows of its Tracks and its tag, circle and voice
\* actor associations are gone, and the rows of other Works, the
\* Playlists and the Tag, Circle and VoiceActor entities are unchanged.
C20_DeleteWorkCascades ==
    [][ lastOp' = "delete_work" =>
          \E w \in idsOf(db.works) :
             LET own == idsOf({ r \in db.tracks : r.work_id = w })
                 kept(r) == r.work_id # w /\ r.track_id \notin own
             IN  /\ db'.works = { r \in db.works : r.id # w }
                 /\ db'.tracks = { r \in db.tracks : r.work_id # w }
                 /\ db'.track_progress = { r \in db.track_progress : kept(r) }
                 /\ db'.play_history = { r \in db.play_history : kept(r) }
                 /\ db'.playlist_tracks = { r \in db.playlist_tracks : r.track_id \notin own }
                 /\ db'.work_tags = { r \in db.work_tags : r.work_id # w }
                 /\ db'.work_voice_actors = { r \in db.work_voice_actors : r.work_id # w }
                 /\ db'.work_circles = { r \in db.work_circles : r.work_id # w }
                 /\ db'.playlists = db.playlists
                 /\ db'.tags = db.tags
                 /\ db'.voice_actors = db.voice_actors
                 /\ db'.circles = db.circles
      ]_vars

\* C20 witness: a Work was deleted that had Tracks, a resume position,
\* history, playlist entries and all three kinds of association, while
\* another Work with a Track in the playlist and a tag is still there.
C20_Witness ==
    /\ lastOp = "delete_work"
    /\ cascaded = { "works", "tracks", "track_progress", "play_history",
                    "playlist_tracks", "work_tags", "work_voice_actors", "work_circles" }
    /\ db.works # {} /\ db.tracks # {}
    /\ db.playlist_tracks # {} /\ db.work_tags # {}
    /\ db.tags # {} /\ db.voice_actors # {} /\ db.circles # {}

\* C21: a toggle_favorite of a work that is not a favorite returns true;
\* the next call, on the same work, returns false and leaves the favorite
\* set as it was before the first; and once a call's answer has been
\* applied, the WorkGrid's favorites hold the work exactly when the call
\* returned true.
C21_ToggleFavoriteSelfInverse ==
    [][ /\ lastOp' = "toggle_favorite" =>
             LET w == prevToggle'.w IN
             /\ prevToggle'.before = favorites
             /\ w \notin favorites => prevToggle'.ret
             /\ (prevToggle.w = w /\ prevToggle.ret /\ w \notin prevToggle.before) =>
                    /\ ~prevToggle'.ret
                    /\ favorites' = prevToggle.before
        /\ lastOp' = "toggleFavoriteApplied" =>
             LET r == Head(favReplies) IN (r.w \in localFavorites') <=> r.ret
      ]_vars

\* C21 witness: work 1 was toggled twice while work 2 is a favorite; the
\* second call returned false, its answer is applied, and the backend's
\* set and the WorkGrid's set both hold work 2 only.
C21_Witness ==
    /\ lastOp = "toggleFavoriteApplied"
    /\ prevToggle = [w |-> 1, ret |-> FALSE, before |-> {1, 2}]
    /\ favorites = {2}
    /\ localFavorites = {2}
    /\ favReplies = <<>>

\* C22: a batch enrichment over N works handles one work per step and
\* goes on after a failed lookup, each work (failed or not) is followed by
\* one progress tick, and when batch_scrape_metadata returns, N ticks have
\* been emitted and the returned count is N minus the failed lookups.
C22_BatchCountsAndTicks ==
    [][ \A c \in Components :
          LET r == batchRun[c]
              r2 == batchRun'[c]
          IN  /\ (lastOp' \in {"batchItem", "batchItemFailed"} /\ r2 # r) =>
                    /\ r2.state = "running" /\ r2.total = r.total
                    /\ r2.current = r.current + 1
                    /\ r2.ticks = r.ticks + 1
                    /\ r2.ok + r2.failed = r.ok + r.failed + 1
                    /\ r2.failed = r.failed + (IF lastOp' = "batchItemFailed" THEN 1 ELSE 0)
              /\ (lastOp' = "batchDone" /\ batchCalls'[c] < batchCalls[c]) =>
                    /\ r2.ticks = r2.total
                    /\ r2.ok = r2.total - r2.failed
      ]_vars

\* C22 witness: the Sidebar's batch over two works, one of whose lookups
\* failed, has returned 1 after two ticks.
C22_Witness ==
    /\ lastOp = "batchDone"
    /\ batchRun["Sidebar"] =
          [state |-> "idle", total |-> 2, current |-> 2, ok |-> 1, failed |-> 1, ticks |-> 2]
    /\ ~batchScraping["Sidebar"]

\* a directory is in the catalog as it is on disk: its Work row and a
\* Track row for each of its files exist
inCatalog(d, dir) ==
    /\ \E r \in d.works : r.dir_path = dir
    /\ \A f \in Files : f.dir = dir => \E t \in d.tracks : t.path = f

\* C23: after any sequence of scans there is at most one Work per dir_path
\* and at most one Track per path, and a scan step on a directory that is
\* already in the catalog leaves the number of Work rows and of Track
\* rows unchanged.
C23_RescanIsIdempotent ==
    /\ [](/\ \A r1, r2 \in db.works : r1.dir_path = r2.dir_path => r1 = r2
          /\ \A t1, t2 \in db.tracks : t1.path = t2.path => t1 = t2)
    /\ [][ lastOp' = "scanWork" =>
             \A dir \in scanRun.todo \ scanRun'.todo :
                inCatalog(db, dir) =>
                   /\ Cardinality(db'.works) = Cardinality(db.works)
                   /\ Cardinality(db'.tracks) = Cardinality(db.tracks)
          ]_vars

\* C23 witness: the whole tree is in the catalog (3 Works, 7 Tracks) and a
\* later scan of RJ01 alone, whose Work is the oldest row, has just
\* processed it again.
C23_Witness ==
    /\ lastOp = "scanWork"
    /\ scanRun = [state |-> "running", root |-> "lib_RJ01", todo |-> {}]
    /\ Cardinality(db.works) = 3
    /\ Cardinality(db.tracks) = 7
    /\ \E r \in db.works : r.dir_path = "RJ01" /\ r.id = 1

\* C24: for every Work and every track position the scan has recorded,
\* there is one Track row per file of that position, exactly one of them
\* is visible, and it is the file of the highest-priority format.
C24_OneVisibleCopyPerPosition ==
    \A w \in db.works : \A p \in { f.pos : f \in Files } :
        LET copies == { t \in db.tracks : t.work_id = w.id /\ t.path.pos = p }
            files == { f \in Files : f.dir = w.dir_path /\ f.pos = p }
            visible == { t \in copies : t.is_visible }
        IN  /\ { t.path : t \in copies } = files
            /\ Cardinality(copies) = Cardinality(files)
            /\ files # {} =>
                  /\ Cardinality(visible) = 1
                  /\ \A t \in visible : \A f \in files :
                        formatRank(t.path.fmt) <= formatRank(f.fmt)

\* C24 witness: the directory with three formats of track 1 has been
\* scanned: three rows, the flac one visible, the wav and mp3 ones hidden.
C24_Witness ==
    /\ lastOp = "scanWork"
    /\ \E w \in db.works :
          /\ w.dir_path = "misc"
          /\ LET copies == { t \in db.tracks : t.work_id = w.id } IN
                /\ Cardinality(copies) = 3
                /\ { t.path.fmt : t \in { c \in copies : c.is_visible } } = {"flac"}
                /\ { t.path.fmt : t \in { c \in copies : ~c.is_visible } } = {"wav", "mp3"}

\* C25: in the store, playPrev with an elapsed time of at most 3 seconds
\* makes queue[i-1] the current track when the current index i is greater
\* than 0 and changes nothing when it is 0; playPrev and playNext without
\* a current track change nothing.
C25_PrevWithinThreeSeconds ==
    [][ /\ (lastOp' = "playPrev" /\ currentTrack # NoTrack /\ currentTime <= 3) =>
             LET i == FindIndex(queue, currentTrack.id) IN
             /\ i > 0 => /\ currentTrack'.id = At(queue, i - 1)
                         /\ isPlaying'
                         /\ queue' = queue
             /\ i = 0 => UNCHANGED <<currentTrack, queue, isPlaying, nLoads>>
        /\ (lastOp' \in {"playPrev", "playNext"} /\ currentTrack = NoTrack) =>
             UNCHANGED <<currentTrack, queue, isPlaying, nLoads, rustQueue>>
      ]_vars

\* C25 witness: playPrev at exactly 3 seconds has left the second of three
\* tracks current, which only a step back from the third can do.
C25_Witness ==
    /\ lastOp = "playPrev"
    /\ currentTime = 3
    /\ queue = <<1, 2, 3>>
    /\ currentTrack = QueueObj(2)
    /\ isPlaying

\* C26: after every play handler and every playNext / playPrev, in any
\* order of the handlers' continuations, a non-null current track has the
\* id of some element of the queue, so the index playNext and playPrev
\* compute is never -1.  (Each handler writes the store only in one
\* synchronous setQueue; setTrack pair placed after its awaited call, so an
\* interleaving of handlers is a sequence of these pairs with any
\* arguments.)
C26_CurrentTrackIsInQueue ==
    currentTrack # NoTrack =>
        /\ \E i \in 0..(Len(queue) - 1) : At(queue, i) = currentTrack.id
        /\ FindIndex(queue, currentTrack.id) >= 0

\* C26 witness: the modal's handler has replaced an earlier queue and
\* track, and its track is the new queue's.
C26_Witness ==
    /\ lastOp = "DetailPlayTrack"
    /\ queue = <<4>>
    /\ currentTrack = CopyObj(4)
    /\ nLoads = 2
    /\ \E k \in 1..Len(rustQueue) : rustQueue[k].t \in {1, 2, 3}

\* the last sleep timer that was set has run out (and none was set since)
sleepHasExpired ==
    /\ sleepTimerSeconds = <<>>
    /\ sleepSetTo > 0
    /\ sleepTicks = sleepSetTo

\* C27: once the sleep timer has expired, playback stays stopped until the
\* next user action: a step that is not a user action (such as the
\* completion of a track load that was in flight at expiry) neither sets
\* isPlaying back to true nor starts the native sink or the audio element.
C27_StaysStoppedAfterExpiry ==
    [][ (/\ sleepHasExpired
         /\ ~isPlaying
         /\ lastOp' \notin {"HandlePlay", "setSleepTimer"}) =>
            /\ ~isPlaying'
            /\ rustPlaying' => rustPlaying
            /\ ~webPaused' => ~webPaused
      ]_vars

\* the volume of the set_volume command a shortcut has just sent
sentVolume == rustQueue'[Len(rustQueue')].v

\* C28: the M shortcut toggles mute: with a current volume greater than 0
\* it sets the volume to 0, and with a current volume of 0 it restores the
\* volume to 1.0.
C28_MuteToggles ==
    [][ lastOp' = "MuteVolumeDone" =>
            /\ rustVolume > 0 => sentVolume = 0
            /\ rustVolume = 0 => sentVolume = 10
      ]_vars

\* C29: for every current volume in [0.0, 1.0], 0 included, ArrowUp never
\* lowers the volume and ArrowDown never raises it: each changes it by at
\* most 0.1 in its own direction, and the value sent to set_volume stays
\* within [0.0, 1.0].
C29_ArrowsStepByAtMostOneTenth ==
    [][ lastOp' = "GetVolumeDone" =>
            /\ sentVolume \in 0..10
            /\ Head(rustQueue).b =>
                  sentVolume >= rustVolume /\ sentVolume - rustVolume <= 1
            /\ ~Head(rustQueue).b =>
                  sentVolume <= rustVolume /\ rustVolume - sentVolume <= 1
      ]_vars

\* no scan_library call is awaiting its answer and every scan-progress
\* event that was emitted has been delivered
scanSettled == total(scanCalls) = 0 /\ scanEvents = 0

\* C30: once a scan has finished and all its scan-progress events have been
\* delivered, in whatever order the return of scan_library and the events
\* reached the Sidebar, the Sidebar's scanning flag is false (nothing but
\* the start of a next scan changes it from then on).
C30_ScanningFalseAfterScan ==
    scanSettled => ~scanning["Sidebar"]

====
